---- MODULE Spec2Model ----
(***************************************************************************)
(* AgriSmart chat front-end: the session store and chat orchestrator of    *)
(* src/App.tsx together with the model-call collaborator of                *)
(* services/geminiService (src/unnamed/part_003) and the delayed file      *)
(* upload notification of src/components/RightPanel.tsx.                   *)
(*                                                                         *)
(* React semantics that the model keeps:                                   *)
(*  - a handler invoked by a user event reads the state of the current     *)
(*    render (discrete events are flushed before the next event);          *)
(*  - the continuation of handleSend after its await, and the setTimeout   *)
(*    callback of handleFileUpload, keep reading the values of the render  *)
(*    in which they were created (username, sessions, currentSessionId,    *)
(*    activeMode, messages): these are carried as a snapshot;              *)
(*  - state setters always write the live state.                           *)
(* Strings are sequences of characters so that slice and trim are          *)
(* computed; long fixed literals are one-token sequences.                  *)
(***************************************************************************)
EXTENDS Integers, Sequences, FiniteSets, TLC

VARIABLES
    isLoggedIn,        \* App.tsx:14
    username,          \* App.tsx:15
    messages,          \* App.tsx:18  displayed transcript
    isLoading,         \* App.tsx:20
    activeMode,        \* App.tsx:25
    sessions,          \* App.tsx:28  in-memory session list
    currentSessionId,  \* App.tsx:29
    storage,           \* localStorage, one entry per key agrismart_history_<name>
    messageHistory,    \* part_003:47 collaborator memory
    inflight,          \* pending sendMessageToGemini calls with handleSend's closure
    pendingUpload,     \* pending setTimeout callbacks of handleFileUpload
    apiKey,            \* part_003:5  TRUE iff process.env.API_KEY is non-empty
    now,               \* value returned by Date.now()
    lastOp,            \* the handler that ran last, with its arguments
    used,              \* how many logins, mode selections, sends and uploads happened
    budget,            \* the bounds of this run: clock values and events
    extraction,        \* a reply given to extractDataFromResponse, and its result
    sensorFile         \* a file given to handleFileUpload's parser, and its result

vars == <<isLoggedIn, username, messages, isLoading, activeMode, sessions,
          currentSessionId, storage, messageHistory, inflight, pendingUpload,
          apiKey, now, lastOp, used, budget, extraction, sensorFile>>

-----------------------------------------------------------------------------
(* Bounds *)
MaxClock == 3
MaxEvents == 4
DeepClock == 2
DeepEvents == 5
LiveEvents == 3
MaxLogins == 2
MaxModeSelects == 2
MaxSends == 2
MaxUploads == 1

(* Program constants *)
TitleLen == 15

\* activeMode === null
Null == "null"
\* currentSessionId === null; ids are Date.now() values, which are positive
NoSession == 0
USER == "user"
MODEL == "model"
ChatMode == {"operations", "scheduling", "diagnosis"}

\* "新任务", the default title (App.tsx:93,165)
Placeholder == <<"xin", "ren", "wu">>
\* "..." appended by the title rewrite (App.tsx:84)
Ellipsis == <<".", ".", ".">>
\* the fixed string sendMessageToGemini returns when fetch fails (part_003:114)
ConnectionFailedText == <<"connection-failed">>
\* the default string of getFallbackResponse (part_003:155)
FallbackText == <<"offline-fallback">>
\* the system prompt (part_003:10)
SYSTEM_INSTRUCTION == <<"system-instruction">>

\* Texts a user can have in the input box when pressing Enter.
ShortText == <<"h", "i">>
LongText == <<"a", "b", "c", "d", "e", "f", "g", "h", "i", "j", "k", "l", "m", "n", "o", "p">>
InputTexts == {<< >>, <<" ">>, ShortText, LongText}
\* Contents the remote model can answer with.
BotContents == {<<"ok">>}
\* Names typed into the login form.
NameInputs == {<<"a">>, <<"b", " ">>, <<" ">>}
FileNames == {"vib.csv"}
\* Cards clicked on the mode selection screen.
ModeInputs == {"operations", "diagnosis"}

Min(a, b) == IF a < b THEN a ELSE b

-----------------------------------------------------------------------------
(* String helpers *)

\* String.prototype.slice(0, n)
Slice(s, n) == SubSeq(s, 1, Min(n, Len(s)))

RECURSIVE TrimLeft(_)
TrimLeft(s) == IF s # << >> /\ Head(s) = " " THEN TrimLeft(Tail(s)) ELSE s

RECURSIVE TrimRight(_)
TrimRight(s) ==
    IF s # << >> /\ s[Len(s)] = " " THEN TrimRight(SubSeq(s, 1, Len(s) - 1)) ELSE s

\* String.prototype.trim()
Trim(s) == TrimRight(TrimLeft(s))

\* keys of localStorage: `agrismart_history_${user}` is injective in user
StorageKeys == NameInputs \cup {Trim(n) : n \in NameInputs}

-----------------------------------------------------------------------------
(* Values *)

ChatMessage(role, text, t) == [role |-> role, text |-> text, timestamp |-> t]

ChatSession(id, title, mode, msgs, t) ==
    [id |-> id, title |-> title, mode |-> mode, messages |-> msgs, lastModified |-> t]

\* the three welcome templates of handleModeSelect, one token per mode
WelcomeText(mode) == <<"welcome", mode>>

\* the notice of handleDataUpload
UploadNotice(fileName) == <<"received", fileName>>

\* the values a handler's closure reads: those of the render that created it
Snapshot ==
    [username |-> username, sessions |-> sessions,
     currentSessionId |-> currentSessionId, activeMode |-> activeMode,
     messages |-> messages]

-----------------------------------------------------------------------------
(* Session store *)

\* Array.prototype.findIndex(s => s.id === id), 0 standing for -1
FindIndex(list, id) ==
    IF \E i \in 1..Len(list) : list[i].id = id
    THEN CHOOSE i \in 1..Len(list) :
            /\ list[i].id = id
            /\ \A j \in 1..(i - 1) : list[j].id # id
    ELSE 0

RECURSIVE InsertDesc(_, _)
InsertDesc(sorted, s) ==
    IF sorted = << >> THEN <<s>>
    ELSE IF Head(sorted).lastModified >= s.lastModified
         THEN <<Head(sorted)>> \o InsertDesc(Tail(sorted), s)
         ELSE <<s>> \o sorted

RECURSIVE SortFrom(_, _)
SortFrom(sorted, rest) ==
    IF rest = << >> THEN sorted
    ELSE SortFrom(InsertDesc(sorted, Head(rest)), Tail(rest))

\* no sort at all
SortDesc_None(list) == list

\* list.sort((a, b) => b.lastModified - a.lastModified); Array sort is stable
SortDesc(list) == SortFrom(<< >>, list)

\* newMessages.find(m => m.role === USER)?.text.slice(0, 15) || "新任务"
FirstUserPrefix(newMessages) ==
    LET us == {i \in 1..Len(newMessages) : newMessages[i].role = USER}
        first == CHOOSE i \in us : \A j \in us : i <= j
        pre == IF us = {} THEN << >> ELSE Slice(newMessages[first].text, TitleLen)
    IN IF pre = << >> THEN Placeholder ELSE pre

\* the title expression of updateCurrentSession
NewTitle(oldTitle, newMessages) ==
    IF oldTitle = Placeholder /\ Len(newMessages) > 1
    THEN FirstUserPrefix(newMessages) \o Ellipsis
    ELSE oldTitle

NoChange == -1

\* updateCurrentSession reading the live state instead of its closure
updateCurrentSession_Live(c, newMessages, t) ==
    IF currentSessionId # NoSession /\ FindIndex(sessions, currentSessionId) # 0
    THEN [run |-> TRUE,
          sessions |-> [sessions EXCEPT ![FindIndex(sessions, currentSessionId)] =
                           [@ EXCEPT !.messages = newMessages, !.lastModified = t]],
          cur |-> NoChange]
    ELSE [run |-> TRUE, sessions |-> sessions, cur |-> NoChange]

\* updateCurrentSession run in a closure c at clock value t: the list it
\* passes to setSessions and saveHistoryToStorage, and the id it passes to
\* setCurrentSessionId (NoChange when it does not call it).
updateCurrentSession(c, newMessages, t) ==
    IF c.username = << >>
    THEN [run |-> FALSE, sessions |-> c.sessions, cur |-> NoChange]
    ELSE IF c.currentSessionId # NoSession
    THEN LET idx == FindIndex(c.sessions, c.currentSessionId)
             upd == IF idx = 0 THEN c.sessions
                    ELSE [c.sessions EXCEPT ![idx] =
                            [@ EXCEPT !.messages = newMessages,
                                      !.lastModified = t,
                                      !.title = NewTitle(@, newMessages)]]
         IN [run |-> TRUE, sessions |-> SortDesc(upd), cur |-> NoChange]
    ELSE LET newSession == ChatSession(t, Placeholder,
                               IF c.activeMode = Null THEN "operations" ELSE c.activeMode,
                               newMessages, t)
         IN [run |-> TRUE, sessions |-> SortDesc(<<newSession>> \o c.sessions), cur |-> t]

\* JSON.stringify of a session list: a Date serializes as its ISO string
Stringify(list) ==
    [i \in 1..Len(list) |->
        [list[i] EXCEPT !.messages =
            [j \in 1..Len(list[i].messages) |->
                [list[i].messages[j] EXCEPT !.timestamp = <<"iso", @>>]]]]

\* JSON.parse followed by the rehydration map of loadHistory
Hydrate(stored) ==
    [i \in 1..Len(stored) |->
        [stored[i] EXCEPT !.messages =
            [j \in 1..Len(stored[i].messages) |->
                [stored[i].messages[j] EXCEPT !.timestamp = @[2]]]]]

\* A storage entry: present is getItem(key) !== null; json tells what
\* JSON.parse makes of the text: "array" (an array, whose elements are in
\* value), "object" (a document whose root is not an array), "invalid"
\* (JSON.parse throws), "empty" (the empty string).
\* localStorage.getItem(key) === null
Absent == [present |-> FALSE, json |-> "array", value |-> << >>]

\* saveHistoryToStorage in a closure whose username is user
saveHistoryToStorage(store, user, list) ==
    [store EXCEPT ![user] = [present |-> TRUE, json |-> "array",
                             value |-> Stringify(list)]]

\* the try block of loadHistory completes: JSON.parse returns an array and
\* every element has a messages array to map over
Parses(entry) ==
    /\ entry.json = "array"
    /\ \A i \in 1..Len(entry.value) : "messages" \in DOMAIN entry.value[i]

\* loadHistory without its try/catch: whatever the entry holds is shown
loadHistory_NoCatch(store, user) ==
    IF store[user].present THEN store[user].value ELSE << >>

\* loadHistory(user): the list it passes to setSessions
loadHistory(store, user) ==
    IF store[user].present /\ store[user].json # "empty"
    THEN IF Parses(store[user])
         THEN SortDesc(Hydrate(store[user].value))
         ELSE << >>
    ELSE << >>

-----------------------------------------------------------------------------
(* Collaborator, part_003 *)

HistoryEntry(role, content) == [role |-> role, content |-> content]

initializeChat == <<HistoryEntry("system", SYSTEM_INSTRUCTION)>>

\* restoreChatSession without the reset of messageHistory
restoreChatSession_NoReset(history) ==
    messageHistory \o
    [i \in 1..Len(history) |->
        HistoryEntry(IF history[i].role = USER THEN "user" ELSE "assistant",
                     history[i].text)]

restoreChatSession(history) ==
    initializeChat \o
    [i \in 1..Len(history) |->
        HistoryEntry(IF history[i].role = USER THEN "user" ELSE "assistant",
                     history[i].text)]

\* the synchronous part of sendMessageToGemini: lines 75-78
PushUser(hist, message) ==
    (IF hist = << >> THEN initializeChat ELSE hist) \o <<HistoryEntry("user", message)>>


-----------------------------------------------------------------------------
(* Response extractor, services/geminiService.ts:82-108.                    *)
(* A reply is a sequence of tokens: the fence of three backquotes, the word *)
(* json that tags a fence when it follows it at once, a blank              *)
(* (any white space), a word of prose, or the text of one JSON document.    *)

\* the three backquotes
Fence == "[fence]"
JsonTag == "json"
Blank == " "
Word == "t"
\* a property that is missing, or a variable never assigned
Undefined == "undefined"

\* Texts that JSON.parse accepts, with what it returns: the kind of the root
\* and the values of the root's machinery and schedule properties (obj is an
\* object, arr a non-empty array, 0, false and null are those JSON values).
DocTokens ==
    {"null", "7", "{}", "{m:obj}", "{s:arr}", "{m:obj,s:arr}", "{m:0}",
     "{s:false}", "{m:null,s:arr}"}
\* a text that JSON.parse rejects
BadDoc == "{bad"

DocValue(tok) ==
    CASE tok = "null" -> [root |-> "null", machinery |-> Undefined, schedule |-> Undefined]
      [] tok = "7" -> [root |-> "number", machinery |-> Undefined, schedule |-> Undefined]
      [] tok = "{}" -> [root |-> "object", machinery |-> Undefined, schedule |-> Undefined]
      [] tok = "{m:obj}" -> [root |-> "object", machinery |-> "obj", schedule |-> Undefined]
      [] tok = "{s:arr}" -> [root |-> "object", machinery |-> Undefined, schedule |-> "arr"]
      [] tok = "{m:obj,s:arr}" -> [root |-> "object", machinery |-> "obj", schedule |-> "arr"]
      [] tok = "{m:0}" -> [root |-> "object", machinery |-> "0", schedule |-> Undefined]
      [] tok = "{s:false}" -> [root |-> "object", machinery |-> Undefined, schedule |-> "false"]
      [] tok = "{m:null,s:arr}" -> [root |-> "object", machinery |-> "null", schedule |-> "arr"]

\* the truthiness of a property value in if (parsed.machinery)
Truthy(v) == v \notin {Undefined, "0", "false", "null"}

\* JSON.parse(content) returns: white space around the one document is allowed
ParseReturns(content) ==
    LET doc == TrimRight(TrimLeft(content))
    IN Len(doc) = 1 /\ doc[1] \in DocTokens

\* JSON.parse(content), for a content it accepts
JSONparse(content) == DocValue(TrimRight(TrimLeft(content))[1])

\* the positions at which jsonRegex can match: a fence tagged json at i
\* and a closing fence somewhere behind it
MatchStarts(text) ==
    {i \in 1..Len(text) :
        /\ text[i] = Fence
        /\ i + 1 <= Len(text) /\ text[i + 1] = JsonTag
        /\ \E j \in (i + 2)..Len(text) : text[j] = Fence}

\* a matcher that takes the last block of the reply
MatchStart_Last(text) ==
    CHOOSE i \in MatchStarts(text) : \A k \in MatchStarts(text) : k <= i

\* String.prototype.match without the g flag: the leftmost match
MatchStart(text) ==
    CHOOSE i \in MatchStarts(text) : \A k \in MatchStarts(text) : i <= k

\* the lazy group ends at the first fence behind the tag
MatchEnd(text, i) ==
    CHOOSE j \in (i + 2)..Len(text) :
        text[j] = Fence /\ \A k \in (i + 2)..(j - 1) : text[k] # Fence

extractDataFromResponse(text) ==
    IF MatchStarts(text) = {}
    THEN [machinery |-> Undefined, schedule |-> Undefined, cleanText |-> text]
    ELSE LET i == MatchStart(text)
             j == MatchEnd(text, i)
             group == SubSeq(text, i + 2, j - 1)
             parsed == JSONparse(group)
         IN \* match[1] is falsy when empty; JSON.parse throws on a bad text
            \* and parsed.machinery throws when parsed is null
            IF group # << >> /\ ParseReturns(group) /\ parsed.root # "null"
            THEN [machinery |-> IF Truthy(parsed.machinery)
                                THEN parsed.machinery ELSE Undefined,
                  schedule |-> IF Truthy(parsed.schedule)
                               THEN parsed.schedule ELSE Undefined,
                  cleanText |-> Trim(SubSeq(text, 1, i - 1)
                                     \o SubSeq(text, j + 1, Len(text)))]
            ELSE [machinery |-> Undefined, schedule |-> Undefined, cleanText |-> text]

\* no reply has been given to the extractor
NoExtraction ==
    [text |-> << >>, done |-> FALSE, machinery |-> Undefined,
     schedule |-> Undefined, cleanText |-> << >>]

\* pieces of which the replies given to the extractor are made
Segments ==
    {<<Word>>, <<Blank>>, <<Fence>>, <<Fence, JsonTag>>, <<Fence, JsonTag, Fence>>,
     <<Fence, Word, Fence>>, <<Fence, JsonTag, BadDoc, Fence>>,
     <<Fence, JsonTag, Blank, "{m:obj}", Blank, Fence>>}
    \cup {<<Fence, JsonTag, d, Fence>> : d \in DocTokens}

MaxSegments == 3

RECURSIVE RepliesOf(_)
RepliesOf(n) ==
    IF n = 0 THEN {<< >>}
    ELSE RepliesOf(n - 1) \cup {r \o g : r \in RepliesOf(n - 1), g \in Segments}

-----------------------------------------------------------------------------
(* Sensor file parser, the reader.onload callback of handleFileUpload,      *)
(* components/RightPanel.tsx:27-98.                                         *)
(* A JSON file is the kind of its root and, for an array, its elements; an  *)
(* element is null, a number, or an object given by the values of the six   *)
(* properties the parser reads. A text file is its lines, a line the fields *)
(* between its commas or tabs. Numbers are natural numbers.                 *)

\* a property the object does not have
Missing == -1
\* the result of Number or parseFloat on a text that is not a number
NaN == -2

Element(kind, time, vibration, value, v, temperature, temp) ==
    [kind |-> kind, time |-> time, vibration |-> vibration, value |-> value,
     v |-> v, temperature |-> temperature, temp |-> temp]

\* the elements null and 5
NullElement == Element("null", Missing, Missing, Missing, Missing, Missing, Missing)
NumberElement == Element("number", Missing, Missing, Missing, Missing, Missing, Missing)

Objects ==
    {Element("object", time, vibration, value, v, temperature, temp) :
        time \in {Missing, 4}, vibration \in {Missing, 0, 3},
        value \in {Missing, 0, 5}, v \in {Missing, 7},
        temperature \in {Missing, 0, 40}, temp \in {Missing, 50}}

Elements == Objects \cup {NullElement, NumberElement}

\* a || b
Or(a, b) == IF a # Missing /\ a # 0 THEN a ELSE b

\* the callback of json.map, for an element that is not null
PointOfItem(item, index) ==
    [time |-> IF item.time # Missing /\ item.time # 0
              THEN <<"t", item.time>> ELSE <<"ms", index * 10>>,
     vibration |-> Or(Or(Or(item.vibration, item.value), item.v), 0),
     temperature |-> Or(Or(item.temperature, item.temp), 60)]

\* fields of a text line: numbers, a word, nothing, a number in quotes
Fields == {"1", "x", ""}
QuotedNumber == "q2"

\* the removal of quote characters, line.replace, on one field
StripQuotes(f) == IF f = QuotedNumber THEN "2" ELSE f

\* Number(f): the empty string is 0
NumberOf(f) ==
    CASE f = "1" -> 1 [] f = "2" -> 2 [] f = "" -> 0 [] OTHER -> NaN

\* parseFloat(f): the empty string is NaN
parseFloat(f) ==
    CASE f = "1" -> 1 [] f = "2" -> 2 [] OTHER -> NaN

\* the filter of split lines: line.trim() is not the empty string
NotBlankLine(line) == line # <<"">>

\* the header test on the first line that is not blank
HasHeader(first) ==
    /\ NumberOf(first[1]) = NaN
    /\ NumberOf(IF Len(first) >= 2 /\ first[2] # "" THEN first[2] ELSE "0") = NaN

\* the callback of lines.slice(startIndex).map
PointOfLine(line, index) ==
    LET parts == [k \in 1..Len(line) |-> StripQuotes(line[k])]
        vibVal == IF Len(parts) = 1 THEN parseFloat(parts[1]) ELSE parseFloat(parts[2])
        tempVal == IF Len(parts) >= 3 THEN parseFloat(parts[3]) ELSE 60
    IN [time |-> IF Len(parts) = 1 THEN <<"ms", index * 10>> ELSE <<"s", parts[1]>>,
        vibration |-> IF vibVal = NaN THEN 0 ELSE vibVal,
        temperature |-> IF tempVal = NaN THEN 60 ELSE tempVal]

\* what the parser leaves: ok is FALSE when an error message was set, and
\* points is the list the timer will pass to onDataUpload
Failed == [ok |-> FALSE, points |-> << >>]
Parsed(points) == IF points = << >> THEN Failed ELSE [ok |-> TRUE, points |-> points]

ParseJson(file) ==
    IF file.root # "array" THEN Failed
    ELSE IF \E i \in 1..Len(file.items) : file.items[i].kind = "null" THEN Failed
    ELSE Parsed([i \in 1..Len(file.items) |-> PointOfItem(file.items[i], i - 1)])

ParseText(file) ==
    LET lines == SelectSeq(file.lines, NotBlankLine)
    IN IF lines = << >> THEN Failed
       ELSE LET rows == IF HasHeader(lines[1]) THEN Tail(lines) ELSE lines
            IN Parsed([i \in 1..Len(rows) |-> PointOfLine(rows[i], i - 1)])

\* reader.onload: the text is empty, or the extension chooses the path
ParseFile(file) ==
    IF file.empty THEN Failed
    ELSE IF file.ext = "json" THEN ParseJson(file) ELSE ParseText(file)

File(ext, empty, root, items, lines) ==
    [ext |-> ext, empty |-> empty, root |-> root, items |-> items, lines |-> lines,
     done |-> FALSE, ok |-> FALSE, points |-> << >>]

\* no file has been dropped
NoFile == File("none", TRUE, "none", << >>, << >>)

MaxItems == 2
MaxLines == 3

RECURSIVE SeqsUpTo(_, _)
SeqsUpTo(S, n) ==
    IF n = 0 THEN {<< >>}
    ELSE SeqsUpTo(S, n - 1) \cup {q \o <<x>> : q \in SeqsUpTo(S, n - 1), x \in S}

\* lines of one to three fields, and a line with a word and a quoted number
Lines == (SeqsUpTo(Fields, 3) \ {<< >>}) \cup {<<"x", QuotedNumber>>}

\* the files dropped on the panel: JSON arrays of at most maxItems elements,
\* text files of at most maxLines lines
Files(maxItems, maxLines) ==
    {File("json", FALSE, "array", items, << >>) : items \in SeqsUpTo(Elements, maxItems)}
    \cup {File("json", FALSE, root, << >>, << >>) : root \in {"object", "invalid"}}
    \cup {File("csv", FALSE, "none", << >>, lines) :
            lines \in SeqsUpTo(Lines, maxLines) \ {<< >>}}
    \cup {File(ext, TRUE, "none", << >>, << >>) : ext \in {"json", "csv"}}

-----------------------------------------------------------------------------
(* Handlers *)

\* done: the handler passed its guard (login, confirm, send);
\* flag: the input box was blank (send), the request succeeded (reply),
\*       handleModeSelect was called first (upload), the session was the
\*       active one (delete)
Op(op, id, done, flag) == [op |-> op, id |-> id, done |-> done, flag |-> flag]

\* A call made without API key resolves in the same task (part_003:80-82):
\* nothing else runs before handleSend's continuation.
Settled == \A i \in 1..Len(inflight) : inflight[i].remote

\* logins, mode selections, accepted sends and uploads so far
Spent == used.logins + used.modeSelects + used.sends + used.uploads

Start ==
    /\ isLoggedIn = FALSE
    /\ username = << >>
    /\ messages = << >>
    /\ isLoading = FALSE
    /\ activeMode = Null
    /\ sessions = << >>
    /\ currentSessionId = NoSession
    /\ storage = [k \in StorageKeys |-> Absent]
    /\ messageHistory = << >>
    /\ inflight = << >>
    /\ pendingUpload = << >>
    /\ apiKey \in BOOLEAN
    /\ now = 1
    /\ lastOp = Op("init", 0, TRUE, FALSE)
    /\ used = [logins |-> 0, modeSelects |-> 0, sends |-> 0, uploads |-> 0]

\* no reply is with the extractor and no file with the parser
NoTools == extraction = NoExtraction /\ sensorFile = NoFile

Init == Start /\ budget = [clock |-> MaxClock, events |-> MaxEvents] /\ NoTools

\* fewer clock values, one more event
InitDeep == Start /\ budget = [clock |-> DeepClock, events |-> DeepEvents] /\ NoTools

\* the bounds of the runs that follow every call to its end
InitLive == Start /\ budget = [clock |-> DeepClock, events |-> LiveEvents] /\ NoTools

\* What localStorage can hold under a user's key when the page is opened
\* and the text is not a session list written by saveHistoryToStorage:
\* text that is not JSON, a JSON object, the empty string, an array with a
\* record that has no messages.
CorruptEntries ==
    {[present |-> TRUE, json |-> "invalid", value |-> << >>],
     [present |-> TRUE, json |-> "object", value |-> << >>],
     [present |-> TRUE, json |-> "empty", value |-> << >>],
     [present |-> TRUE, json |-> "array",
      value |-> <<[id |-> 9, title |-> Placeholder, mode |-> "operations",
                   lastModified |-> 1]>>]}

\* the page is opened on a browser whose entry for user a is corrupt
InitCorrupt ==
    /\ isLoggedIn = FALSE
    /\ username = << >>
    /\ messages = << >>
    /\ isLoading = FALSE
    /\ activeMode = Null
    /\ sessions = << >>
    /\ currentSessionId = NoSession
    /\ \E e \in CorruptEntries :
          storage = [k \in StorageKeys |-> IF k = <<"a">> THEN e ELSE Absent]
    /\ messageHistory = << >>
    /\ inflight = << >>
    /\ pendingUpload = << >>
    /\ apiKey \in BOOLEAN
    /\ now = 1
    /\ lastOp = Op("init", 0, TRUE, FALSE)
    /\ used = [logins |-> 0, modeSelects |-> 0, sends |-> 0, uploads |-> 0]
    /\ budget = [clock |-> DeepClock, events |-> MaxEvents]
    /\ extraction = NoExtraction
    /\ sensorFile = NoFile

\* the clock read by Date.now() and new Date() advances
Tick ==
    /\ now < budget.clock
    /\ now' = now + 1
    /\ UNCHANGED <<isLoggedIn, username, messages, isLoading, activeMode, sessions,
                   currentSessionId, storage, messageHistory, inflight,
                   pendingUpload, apiKey, lastOp, used, budget, extraction, sensorFile>>

\* the login form: onChange sets username to name, then submit
handleLogin(name) ==
    /\ ~isLoggedIn
    /\ Settled
    /\ used.logins < MaxLogins /\ Spent < budget.events
    /\ used' = [used EXCEPT !.logins = @ + 1]
    /\ username' = name
    /\ lastOp' = Op("handleLogin", 0, Trim(name) # << >>, FALSE)
    /\ IF Trim(name) # << >>
       THEN /\ isLoggedIn' = TRUE
            /\ sessions' = loadHistory(storage, Trim(name))
            /\ messages' = << >>
            /\ activeMode' = Null
            /\ currentSessionId' = NoSession
       ELSE UNCHANGED <<isLoggedIn, sessions, messages, activeMode, currentSessionId>>
    /\ UNCHANGED <<isLoading, storage, messageHistory, inflight, pendingUpload,
                   apiKey, now, budget, extraction, sensorFile>>

handleLogout ==
    /\ isLoggedIn
    /\ Settled
    /\ isLoggedIn' = FALSE
    /\ username' = << >>
    /\ sessions' = << >>
    /\ messages' = << >>
    /\ currentSessionId' = NoSession
    /\ activeMode' = Null
    /\ lastOp' = Op("handleLogout", 0, TRUE, FALSE)
    /\ UNCHANGED <<isLoading, storage, messageHistory, inflight, pendingUpload,
                   apiKey, now, used, budget, extraction, sensorFile>>

handleNewChat ==
    /\ isLoggedIn
    /\ Settled
    /\ messages' = << >>
    /\ currentSessionId' = NoSession
    /\ activeMode' = Null
    /\ messageHistory' = initializeChat
    /\ lastOp' = Op("handleNewChat", 0, TRUE, FALSE)
    /\ UNCHANGED <<isLoggedIn, username, isLoading, sessions, storage, inflight,
                   pendingUpload, apiKey, now, used, budget, extraction, sensorFile>>

\* handleModeSelect creating the session before its welcome message
ModeSelectSessions_NoWelcome(c, mode, t) ==
    <<ChatSession(t, Placeholder, mode, << >>, t)>> \o c.sessions

\* handleModeSelect putting the new session at the end of the list
ModeSelectSessions_AtEnd(c, mode, t) ==
    c.sessions \o
        <<ChatSession(t, Placeholder, mode, <<ChatMessage(MODEL, WelcomeText(mode), t)>>, t)>>

\* the session handleModeSelect creates in a closure c at clock value t
ModeSelectSessions(c, mode, t) ==
    <<ChatSession(t, Placeholder, mode, <<ChatMessage(MODEL, WelcomeText(mode), t)>>, t)>>
        \o c.sessions

\* a click on one of the three cards of the mode selection screen
handleModeSelect(mode) ==
    /\ isLoggedIn
    /\ Settled
    /\ activeMode = Null
    /\ used.modeSelects < MaxModeSelects /\ Spent < budget.events
    /\ used' = [used EXCEPT !.modeSelects = @ + 1]
    /\ activeMode' = mode
    /\ currentSessionId' = now
    /\ messages' = <<ChatMessage(MODEL, WelcomeText(mode), now)>>
    /\ sessions' = ModeSelectSessions(Snapshot, mode, now)
    /\ storage' = saveHistoryToStorage(storage, username, sessions')
    /\ messageHistory' = initializeChat
    /\ lastOp' = Op("handleModeSelect", now, TRUE, FALSE)
    /\ UNCHANGED <<isLoggedIn, username, isLoading, inflight, pendingUpload,
                   apiKey, now, budget, extraction, sensorFile>>

\* a click on the i-th entry of the sidebar, which lists sessions
handleSelectSession(i) ==
    /\ isLoggedIn
    /\ Settled
    /\ i \in 1..Len(sessions)
    /\ currentSessionId' = sessions[i].id
    /\ messages' = sessions[i].messages
    /\ activeMode' = sessions[i].mode
    /\ messageHistory' = restoreChatSession(sessions[i].messages)
    /\ lastOp' = Op("handleSelectSession", sessions[i].id, TRUE, FALSE)
    /\ UNCHANGED <<isLoggedIn, username, isLoading, sessions, storage, inflight,
                   pendingUpload, apiKey, now, used, budget, extraction, sensorFile>>

\* a filter that drops the first entry of the list instead
FilterOut_Head(list, sessionId) == Tail(list)

\* sessions.filter(s => s.id !== sessionId)
FilterOut(list, sessionId) == SelectSeq(list, LAMBDA s : s.id # sessionId)

\* the delete button of the i-th sidebar entry; confirmed is window.confirm's answer
handleDeleteSession(i, confirmed) ==
    /\ isLoggedIn
    /\ Settled
    /\ i \in 1..Len(sessions)
    /\ lastOp' = Op("handleDeleteSession", sessions[i].id, confirmed,
                    currentSessionId = sessions[i].id)
    /\ IF confirmed
       THEN /\ sessions' = FilterOut(sessions, sessions[i].id)
            /\ storage' = saveHistoryToStorage(storage, username, sessions')
            /\ IF currentSessionId = sessions[i].id
               THEN /\ messages' = << >>
                    /\ currentSessionId' = NoSession
                    /\ activeMode' = Null
                    /\ messageHistory' = initializeChat
               ELSE UNCHANGED <<messages, currentSessionId, activeMode, messageHistory>>
       ELSE UNCHANGED <<sessions, storage, messages, currentSessionId, activeMode,
                        messageHistory>>
    /\ UNCHANGED <<isLoggedIn, username, isLoading, inflight, pendingUpload,
                   apiKey, now, used, budget, extraction, sensorFile>>

\* handleSend without the isLoading test
SendAccepted_IgnoreLoading(text) == Trim(text) # << >>

\* handleSend testing input instead of input.trim()
SendAccepted_NoTrim(text) == text # << >> /\ ~isLoading

\* the guard of handleSend, App.tsx:203
SendAccepted(text) == Trim(text) # << >> /\ ~isLoading

\* Enter in the input box or a click on the send button, the box holding text;
\* the part of handleSend up to its await
handleSend(text) ==
    /\ isLoggedIn
    /\ Settled
    /\ activeMode # Null
    /\ IF SendAccepted(text)
       THEN LET userMsg == ChatMessage(USER, text, now)
                newMessages == messages \o <<userMsg>>
                r == updateCurrentSession(Snapshot, newMessages, now)
            IN /\ used.sends < MaxSends /\ Spent < budget.events
               /\ used' = [used EXCEPT !.sends = @ + 1]
               /\ messages' = newMessages
               /\ sessions' = IF r.run THEN r.sessions ELSE sessions
               /\ storage' = IF r.run
                             THEN saveHistoryToStorage(storage, username, r.sessions)
                             ELSE storage
               /\ currentSessionId' = IF r.cur # NoChange THEN r.cur ELSE currentSessionId
               /\ isLoading' = TRUE
               /\ messageHistory' = PushUser(messageHistory, text)
               /\ inflight' = Append(inflight,
                                [c |-> Snapshot, newMessages |-> newMessages,
                                 remote |-> apiKey])
               /\ lastOp' = Op("handleSend", currentSessionId, TRUE, Trim(text) = << >>)
       ELSE /\ lastOp' = Op("handleSend", currentSessionId, FALSE, Trim(text) = << >>)
            /\ UNCHANGED <<messages, sessions, storage, currentSessionId, isLoading,
                           messageHistory, inflight, used>>
    /\ UNCHANGED <<isLoggedIn, username, activeMode, pendingUpload, apiKey, now, budget, extraction, sensorFile>>

\* the text sendMessageToGemini resolves with: the model's content when the
\* request succeeded, the fixed failure string when fetch or the status
\* failed, the offline answer when no API key is configured
ResponseText(remote, ok, content) ==
    IF ~remote THEN FallbackText
    ELSE IF ok THEN content ELSE ConnectionFailedText

\* finally { setIsLoading(false) } skipped when the request failed
LoadingAfterReply_OnlyOnSuccess(ok) == ~ok

\* the value handleSend's finally block gives isLoading, App.tsx:237-239
LoadingAfterReply(ok) == FALSE

\* sendMessageToGemini resolves and handleSend continues after its await
ReplyArrives(ok, content) ==
    /\ inflight # << >>
    /\ LET call == Head(inflight)
           responseText == ResponseText(call.remote, ok, content)
           modelMsg == ChatMessage(MODEL, responseText, now)
           finalMessages == call.newMessages \o <<modelMsg>>
           r == updateCurrentSession(call.c, finalMessages, now)
       IN /\ (~call.remote => ok)
          /\ messageHistory' = IF call.remote /\ ok
                               THEN Append(messageHistory,
                                           HistoryEntry("assistant", content))
                               ELSE messageHistory
          /\ messages' = finalMessages
          /\ sessions' = IF r.run THEN r.sessions ELSE sessions
          /\ storage' = IF r.run
                        THEN saveHistoryToStorage(storage, call.c.username, r.sessions)
                        ELSE storage
          /\ currentSessionId' = IF r.cur # NoChange THEN r.cur ELSE currentSessionId
          /\ lastOp' = Op("ReplyArrives", call.c.currentSessionId, TRUE, call.remote /\ ok)
    /\ isLoading' = LoadingAfterReply(ok)
    /\ inflight' = Tail(inflight)
    /\ UNCHANGED <<isLoggedIn, username, activeMode, pendingUpload, apiKey, now, used, budget, extraction, sensorFile>>


\* a file dropped on the right panel parses to a non-empty point list:
\* handleFileUpload arms a timer whose callback calls the onDataUpload of the
\* render in which the file was dropped
StartUpload(fileName) ==
    /\ isLoggedIn
    /\ Settled
    /\ used.uploads < MaxUploads /\ Spent < budget.events
    /\ used' = [used EXCEPT !.uploads = @ + 1]
    /\ pendingUpload' = Append(pendingUpload,
                            [c |-> Snapshot, fileName |-> fileName, startedAt |-> now])
    /\ lastOp' = Op("handleFileUpload", currentSessionId, TRUE, FALSE)
    /\ UNCHANGED <<isLoggedIn, username, messages, isLoading, activeMode, sessions,
                   currentSessionId, storage, messageHistory, inflight, apiKey, now, budget, extraction, sensorFile>>

\* handleDataUpload calls handleModeSelect('diagnosis') first
AutoSwitch(c) == c.activeMode # "diagnosis" /\ c.currentSessionId = NoSession

\* the timer fires after its 800 ms: handleDataUpload runs in the closure c
handleDataUpload ==
    /\ pendingUpload # << >>
    /\ Settled
    /\ LET up == Head(pendingUpload)
           c == up.c
           msg == ChatMessage(MODEL, UploadNotice(up.fileName), now)
           newMessages == c.messages \o <<msg>>
           r == updateCurrentSession(c, newMessages, now)
           created == ModeSelectSessions(c, "diagnosis", now)
           stored == IF AutoSwitch(c)
                     THEN saveHistoryToStorage(storage, c.username, created)
                     ELSE storage
       IN /\ now > up.startedAt
          /\ activeMode' = IF AutoSwitch(c) THEN "diagnosis" ELSE activeMode
          /\ messageHistory' = IF AutoSwitch(c) THEN initializeChat ELSE messageHistory
          /\ messages' = newMessages
          /\ sessions' = IF r.run THEN r.sessions
                         ELSE IF AutoSwitch(c) THEN created ELSE sessions
          /\ storage' = IF r.run
                        THEN saveHistoryToStorage(stored, c.username, r.sessions)
                        ELSE stored
          /\ currentSessionId' = IF r.cur # NoChange THEN r.cur
                                 ELSE IF AutoSwitch(c) THEN now ELSE currentSessionId
          /\ lastOp' = Op("handleDataUpload", c.currentSessionId, TRUE, AutoSwitch(c))
    /\ pendingUpload' = Tail(pendingUpload)
    /\ UNCHANGED <<isLoggedIn, username, isLoading, inflight, apiKey, now, used, budget, extraction, sensorFile>>

Next ==
    \/ Tick
    \/ \E name \in NameInputs : handleLogin(name)
    \/ handleLogout
    \/ handleNewChat
    \/ \E mode \in ModeInputs : handleModeSelect(mode)
    \/ \E i \in 1..Len(sessions) : handleSelectSession(i)
    \/ \E i \in 1..Len(sessions), confirmed \in BOOLEAN : handleDeleteSession(i, confirmed)
    \/ \E text \in InputTexts : handleSend(text)
    \/ \E ok \in BOOLEAN, content \in BotContents : ReplyArrives(ok, content)
    \/ \E fileName \in FileNames : StartUpload(fileName)
    \/ handleDataUpload

Spec == Init /\ [][Next]_vars

SpecDeep == InitDeep /\ [][Next]_vars

SpecCorrupt == InitCorrupt /\ [][Next]_vars

\* the extractor applied to a reply
Extract ==
    /\ ~extraction.done
    /\ extraction.text \in RepliesOf(MaxSegments)
    /\ LET r == extractDataFromResponse(extraction.text)
       IN extraction' = [text |-> extraction.text, done |-> TRUE,
                         machinery |-> r.machinery, schedule |-> r.schedule,
                         cleanText |-> r.cleanText]
    /\ UNCHANGED <<isLoggedIn, username, messages, isLoading, activeMode, sessions,
                   currentSessionId, storage, messageHistory, inflight,
                   pendingUpload, apiKey, now, lastOp, used, budget, sensorFile>>

\* the application as mounted, nobody logged in
Mounted ==
    /\ Start
    /\ apiKey = FALSE
    /\ budget = [clock |-> MaxClock, events |-> MaxEvents]

\* a reply is given to the extractor
InitExtract ==
    /\ Mounted
    /\ \E text \in RepliesOf(MaxSegments) :
          extraction = [NoExtraction EXCEPT !.text = text]
    /\ sensorFile = NoFile

SpecExtract == InitExtract /\ [][Extract]_vars

\* the parser applied to a dropped file
Parse ==
    /\ ~sensorFile.done
    /\ sensorFile.ext # "none"
    /\ LET r == ParseFile(sensorFile)
       IN sensorFile' = [sensorFile EXCEPT !.done = TRUE, !.ok = r.ok,
                                             !.points = r.points]
    /\ UNCHANGED <<isLoggedIn, username, messages, isLoading, activeMode, sessions,
                   currentSessionId, storage, messageHistory, inflight,
                   pendingUpload, apiKey, now, lastOp, used, budget, extraction>>

\* a file is dropped on the panel
InitParse ==
    /\ Mounted
    /\ extraction = NoExtraction
    /\ sensorFile \in Files(MaxItems, MaxLines)

SpecParse == InitParse /\ [][Parse]_vars

\* a request sent by fetch settles, and the answer given without API key is
\* returned at once: handleSend's continuation always comes to run
SpecLive ==
    /\ InitLive
    /\ [][Next]_vars
    /\ WF_vars(\E ok \in BOOLEAN, content \in BotContents : ReplyArrives(ok, content))


-----------------------------------------------------------------------------
(* Properties *)

Last(s) == s[Len(s)]
Ids(list) == {list[i].id : i \in 1..Len(list)}
Stored(k) == Hydrate(storage[k].value)

\* a step in which handleSend ran (Tick leaves lastOp as it is)
SendStep == lastOp'.op = "handleSend" /\ now' = now
\* a step in which sendMessageToGemini resolved and handleSend continued
ReplyStep == Len(inflight') < Len(inflight)

\* C1: handleSend does nothing when the input is empty or whitespace-only or
\* when a reply is awaited: the transcript, the session list, the active
\* session, storage, the collaborator's memory and the outstanding calls
\* are what they were.
C1_SendGuardNoOp ==
    [][(SendStep /\ (lastOp'.flag \/ isLoading))
        => UNCHANGED <<messages, sessions, currentSessionId, storage,
                       messageHistory, inflight, isLoading>>]_vars

\* a send of non-blank text was ignored because a reply was awaited
C1_Witness ==
    /\ lastOp.op = "handleSend" /\ ~lastOp.done /\ ~lastOp.flag
    /\ isLoading /\ inflight # << >>

\* C2: at most one call to the model is outstanding in every reachable state.
C2_AtMostOneCall == Len(inflight) <= 1 /\ (isLoading <=> inflight # << >>)

\* a call is still outstanding after a logout and a second login, with a
\* session active and the input box shown
C2_Witness ==
    /\ Len(inflight) = 1 /\ isLoggedIn /\ used.logins = 2 /\ activeMode # Null


HasSession(list, id, msgs) ==
    \E i \in 1..Len(list) : list[i].id = id /\ list[i].messages = msgs

DeleteOf(id) ==
    /\ lastOp'.op = "handleDeleteSession" /\ lastOp'.done /\ lastOp'.id = id
    /\ now' = now

\* C4 as claimed: a session leaves a stored list, or the in-memory list of
\* the logged-in user, only in a step that is a confirmed deleteSession of
\* its id (login and logout replace the in-memory list as a whole).
C4_OnlyDeleteRemoves ==
    [][/\ \A k \in StorageKeys : \A id \in Ids(storage[k].value) :
            id \notin Ids(storage'[k].value) => DeleteOf(id)
       /\ (isLoggedIn /\ isLoggedIn')
            => \A id \in Ids(sessions) : id \notin Ids(sessions') => DeleteOf(id)]_vars

\* a step in which handleSend passed its guard and issued the call
AcceptedSendStep == Len(inflight') > Len(inflight)

\* C5 as claimed: when a send is accepted the USER message is appended to
\* the transcript and the active session is in storage with that transcript
\* by the time the call is outstanding.
C5_UserMessagePersisted ==
    [][AcceptedSendStep =>
        /\ Len(messages') = Len(messages) + 1
        /\ Last(messages').role = USER
        /\ HasSession(Hydrate(storage'[username].value), currentSessionId',
                      messages')]_vars

\* C6 as claimed: when the request fails, the transcript ends with a MODEL
\* message carrying the fixed failure text and the sender's stored session
\* holds the transcript with that message.
C6_ErrorMessagePersisted ==
    [][(ReplyStep /\ Head(inflight).remote /\ ~lastOp'.flag) =>
        /\ Last(messages') = ChatMessage(MODEL, ConnectionFailedText, now)
        /\ \E i \in 1..Len(storage'[Head(inflight).c.username].value) :
              Hydrate(storage'[Head(inflight).c.username].value)[i].messages
                  = messages']_vars

HasUser(msgs) == \E i \in 1..Len(msgs) : msgs[i].role = USER
FirstUserText(msgs) ==
    msgs[CHOOSE i \in 1..Len(msgs) :
            msgs[i].role = USER /\ \A j \in 1..(i - 1) : msgs[j].role # USER].text

\* the title the store is specified to derive from a first user message
SpecTitle(text) ==
    IF Len(text) <= TitleLen THEN text ELSE Slice(text, TitleLen) \o Ellipsis

\* C7 as claimed: when an update replaces a placeholder title while the new
\* transcript holds a USER message, the new title is that message's text if
\* it has at most 15 characters and its first 15 characters plus the
\* ellipsis otherwise.
C7_TitleFromFirstUserMessage ==
    [][\A i \in 1..Len(sessions), j \in 1..Len(sessions') :
        (/\ sessions[i].id = sessions'[j].id
         /\ sessions[i].title = Placeholder
         /\ sessions'[j].title # Placeholder
         /\ HasUser(sessions'[j].messages))
        => sessions'[j].title = SpecTitle(FirstUserText(sessions'[j].messages))]_vars

\* a title obtained from text, with or without the ellipsis
DerivedFrom(title, text) ==
    \/ title = text
    \/ title = text \o Ellipsis
    \/ title = Slice(text, TitleLen) \o Ellipsis

TitlesDerived(list) ==
    \A i \in 1..Len(list) :
        HasUser(list[i].messages)
            => DerivedFrom(list[i].title, FirstUserText(list[i].messages))

\* C8 as claimed: every session, in memory or stored, whose transcript holds
\* a USER message has a title derived from its first USER message.
C8_TitleDerivedOnce ==
    /\ TitlesDerived(sessions)
    /\ \A k \in StorageKeys : TitlesDerived(storage[k].value)

SortedDesc(list) ==
    \A i \in 1..(Len(list) - 1) : list[i].lastModified >= list[i + 1].lastModified

\* C9: the in-memory session list and every stored list are sorted by
\* lastModified, most recent first.
C9_SortedByLastModified ==
    /\ SortedDesc(sessions)
    /\ \A k \in StorageKeys : SortedDesc(storage[k].value)

\* an update has moved a session in front of one that was created after it
C9_Witness ==
    /\ Len(sessions) >= 2
    /\ sessions[1].lastModified > sessions[2].lastModified
    /\ sessions[1].messages[1].timestamp < sessions[2].messages[1].timestamp
    /\ storage[username].present
    /\ Hydrate(storage[username].value) = sessions

UniqueIds(list) ==
    \A i, j \in 1..Len(list) : list[i].id = list[j].id => i = j

\* C10 as claimed: no two sessions of a list, in memory or stored, have the
\* same id.
C10_UniqueIds ==
    /\ UniqueIds(sessions)
    /\ \A k \in StorageKeys : UniqueIds(storage[k].value)

NonEmptyTranscripts(list) == \A i \in 1..Len(list) : Len(list[i].messages) >= 1

\* C11: every session of the in-memory list and of every stored list has
\* at least one message.
C11_NoEmptySession ==
    /\ NonEmptyTranscripts(sessions)
    /\ \A k \in StorageKeys : NonEmptyTranscripts(storage[k].value)

\* a session created by a mode selection and one updated by a send and its
\* reply are in the list and in storage
C11_Witness ==
    /\ Len(sessions) >= 2
    /\ \E i, j \in 1..Len(sessions) :
          Len(sessions[i].messages) = 1 /\ Len(sessions[j].messages) >= 3
    /\ Hydrate(storage[username].value) = sessions
\* a step in which handleDeleteSession ran and the user confirmed
ConfirmedDeleteStep ==
    lastOp'.op = "handleDeleteSession" /\ lastOp'.done /\ now' = now

\* C12: a confirmed deleteSession(id) leaves in the in-memory list exactly
\* the sessions whose id is not id, in their order, and stores that list
\* under the user's key, touching no other key; if the deleted session was
\* the active one there is afterwards no current id, no transcript and no
\* mode, and the list holds no session it did not hold before; otherwise
\* the active session, its transcript and the mode stay.
C12_DeleteRemovesExactly ==
    [][ConfirmedDeleteStep =>
        /\ sessions' = SelectSeq(sessions, LAMBDA x : x.id # lastOp'.id)
        /\ Len(sessions') < Len(sessions)
        /\ storage'[username].present
        /\ Hydrate(storage'[username].value) = sessions'
        /\ \A k \in StorageKeys \ {username} : storage'[k] = storage[k]
        /\ (lastOp'.flag =>
              /\ currentSessionId' = NoSession
              /\ messages' = << >>
              /\ activeMode' = Null
              /\ Ids(sessions') \subseteq Ids(sessions))
        /\ (~lastOp'.flag => UNCHANGED <<currentSessionId, messages, activeMode>>)]_vars

\* the active session was deleted while another session was in the list
C12_Witness ==
    /\ lastOp.op = "handleDeleteSession" /\ lastOp.done /\ lastOp.flag
    /\ sessions # << >>
    /\ lastOp.id \notin Ids(sessions)
    /\ currentSessionId = NoSession
    /\ Hydrate(storage[username].value) = sessions
\* the in-memory session state is what handleLogout leaves
Cleared ==
    /\ sessions = << >>
    /\ messages = << >>
    /\ currentSessionId = NoSession
    /\ activeMode = Null

\* C13 as claimed: the logout step empties the username and the in-memory
\* session state and leaves storage as it is, and as long as nobody is
\* logged in the session state stays empty, whatever resolves meanwhile.
C13_LogoutStaysCleared ==
    [][/\ (lastOp'.op = "handleLogout" /\ now' = now)
            => (username' = << >> /\ Cleared' /\ storage' = storage)
       /\ ~isLoggedIn' => Cleared']_vars
\* the closure in which updateCurrentSession runs in this step, when it runs
UpdateClosure ==
    IF ReplyStep THEN Head(inflight).c
    ELSE IF Len(pendingUpload') < Len(pendingUpload) THEN Head(pendingUpload).c
    ELSE Snapshot

\* a step in which updateCurrentSession ran: an accepted send, a reply, an
\* upload notification
UpdateStep ==
    \/ AcceptedSendStep
    \/ ReplyStep
    \/ Len(pendingUpload') < Len(pendingUpload)

\* C14 as claimed: when updateSession runs for a session id that no session
\* of its list has, every session of that list is kept as it is and a new
\* session holding the given transcript is added, so that the transcript is
\* in the in-memory list and in the stored list afterwards.
C14_UnknownIdSynthesizes ==
    [][(/\ UpdateStep
        /\ UpdateClosure.username # << >>
        /\ UpdateClosure.currentSessionId # NoSession
        /\ UpdateClosure.currentSessionId \notin Ids(UpdateClosure.sessions))
        => /\ \A i \in 1..Len(UpdateClosure.sessions) :
                 \E j \in 1..Len(sessions') : sessions'[j] = UpdateClosure.sessions[i]
           /\ \E j \in 1..Len(sessions') : sessions'[j].messages = messages'
           /\ \E j \in 1..Len(storage'[UpdateClosure.username].value) :
                 Hydrate(storage'[UpdateClosure.username].value)[j].messages
                     = messages']_vars
\* a step in which the user clicked a card of the mode selection screen
ModeSelectStep == lastOp'.op = "handleModeSelect" /\ now' = now

\* C15: a mode selection puts a new session in front of the sessions the
\* list held; its mode is the selected mode, its title the placeholder, its
\* transcript the one MODEL welcome message of that mode; it is the active
\* session, its transcript is the displayed one, and the list with it is
\* in storage under the user's key in the same step, while no call to the
\* model has been issued in it.
C15_ModeSelectCreatesSession ==
    [][ModeSelectStep =>
        /\ sessions' # << >>
        /\ Tail(sessions') = sessions
        /\ activeMode' \in ChatMode
        /\ Head(sessions').mode = activeMode'
        /\ Head(sessions').title = Placeholder
        /\ Len(Head(sessions').messages) = 1
        /\ Head(sessions').messages[1].role = MODEL
        /\ Head(sessions').messages[1].text = WelcomeText(activeMode')
        /\ currentSessionId' = Head(sessions').id
        /\ currentSessionId' = lastOp'.id
        /\ messages' = Head(sessions').messages
        /\ storage'[username].present
        /\ Hydrate(storage'[username].value) = sessions'
        /\ inflight' = inflight]_vars

\* a second session was created by a mode selection, in front of the first
C15_Witness ==
    /\ lastOp.op = "handleModeSelect"
    /\ Len(sessions) = 2
    /\ currentSessionId = sessions[1].id
    /\ sessions[1].mode = "diagnosis" /\ sessions[2].mode = "operations"
    /\ Hydrate(storage[username].value) = sessions
\* a step in which the user clicked an entry of the sidebar
SelectStep == lastOp'.op = "handleSelectSession" /\ now' = now

\* the collaborator's memory is the system instruction followed by one
\* entry per message of msgs, in order, with its role and its text
MemoryOf(hist, msgs) ==
    /\ Len(hist) = Len(msgs) + 1
    /\ hist[1] = [role |-> "system", content |-> SYSTEM_INSTRUCTION]
    /\ \A i \in 1..Len(msgs) :
          /\ hist[i + 1].content = msgs[i].text
          /\ (msgs[i].role = USER => hist[i + 1].role = "user")
          /\ (msgs[i].role = MODEL => hist[i + 1].role = "assistant")

\* C16: a switch to a session of the list makes that session's messages
\* the displayed transcript, its id the current id, and the collaborator's
\* memory the system instruction followed by those messages in order, USER
\* as user and MODEL as assistant, and nothing else.
C16_SwitchRestoresMemory ==
    [][SelectStep =>
        \E i \in 1..Len(sessions) :
            /\ sessions[i].id = lastOp'.id
            /\ currentSessionId' = sessions[i].id
            /\ messages' = sessions[i].messages
            /\ MemoryOf(messageHistory', sessions[i].messages)]_vars

\* the user switched from a session with a conversation to a fresh one
C16_Witness ==
    /\ lastOp.op = "handleSelectSession"
    /\ Len(messages) = 1
    /\ Len(messageHistory) = 2
    /\ \E i \in 1..Len(sessions) :
          sessions[i].id # currentSessionId /\ HasUser(sessions[i].messages)
\* a step in which the login form was submitted with a non-blank name
LoginStep == lastOp'.op = "handleLogin" /\ lastOp'.done /\ now' = now

\* C17 as claimed: at a login, the list shown is the list that was stored
\* while the same entered name was logged in (the stores of a login go to
\* the key of the username state, which is the name as entered): the same
\* sessions with the same id, title, mode and messages, timestamps included.
C17_RoundTrip ==
    [][(LoginStep /\ storage[username'].present)
        => sessions' = Hydrate(storage[username'].value)]_vars
\* the text of a storage entry is not a serialized session list: it is not
\* JSON, its root is not an array, or a record has no messages
Undeserializable(entry) ==
    \/ entry.json \in {"invalid", "empty", "object"}
    \/ \E i \in 1..Len(entry.value) : "messages" \notin DOMAIN entry.value[i]

\* C18: a login whose storage entry is absent or is not a serialized
\* session list ends logged in with the empty session list, no session
\* active and storage untouched; and a mode selection made afterwards
\* replaces the entry of that user by the serialized list it shows.
C18_LoadDegradesToEmpty ==
    [][/\ (/\ LoginStep
            /\ \/ ~storage[Trim(username')].present
               \/ Undeserializable(storage[Trim(username')]))
            => /\ isLoggedIn'
               /\ sessions' = << >>
               /\ Cleared'
               /\ storage' = storage
       /\ ModeSelectStep
            => /\ ~Undeserializable(storage'[username])
               /\ Hydrate(storage'[username].value) = sessions']_vars

\* user a has logged in over an entry holding a record without messages
C18_Witness ==
    /\ lastOp.op = "handleLogin" /\ lastOp.done
    /\ isLoggedIn /\ username = <<"a">>
    /\ storage[<<"a">>].present
    /\ storage[<<"a">>].value # << >>
    /\ Undeserializable(storage[<<"a">>])
\* the id of the session the updateCurrentSession call of this step was
\* for: the closure's current id, or the id it gave the session it made
UpdatedId ==
    IF UpdateClosure.currentSessionId # NoSession
    THEN UpdateClosure.currentSessionId
    ELSE now

\* list b is list a up to the order and to lastModified, which is t in the
\* sessions of b whose id is id
SameButLastModified(a, b, id, t) ==
    /\ Len(a) = Len(b)
    /\ \A i \in 1..Len(a) : \E j \in 1..Len(b) :
          \/ b[j] = a[i]
          \/ a[i].id = id /\ b[j] = [a[i] EXCEPT !.lastModified = t]
    /\ \A j \in 1..Len(b) : \E i \in 1..Len(a) :
          \/ b[j] = a[i]
          \/ a[i].id = id /\ b[j] = [a[i] EXCEPT !.lastModified = t]

\* C19 as claimed: after updateSession has run, a second call for the same
\* session with the same transcript, made on the list the first call left,
\* at the same or a later clock value, changes nothing but that session's
\* lastModified: its messages, title, id and mode and all other sessions
\* are what the first call left.
C19_UpdateIdempotent ==
    [][(UpdateStep /\ UpdateClosure.username # << >>) =>
        \A t \in now..budget.clock :
            LET again == [UpdateClosure EXCEPT !.sessions = sessions',
                                               !.currentSessionId = UpdatedId]
            IN SameButLastModified(sessions',
                   updateCurrentSession(again, messages', t).sessions,
                   UpdatedId, t)]_vars
\* C20: whenever a reply is awaited, isLoading becomes false again; and when
\* the call resolves, with the model's answer or with a failure, isLoading
\* is false, no call is outstanding and the guard of handleSend accepts a
\* non-blank text.
C20_SendLeavesWaiting ==
    /\ isLoading ~> ~isLoading
    /\ [][ReplyStep => /\ ~isLoading'
                       /\ inflight' = << >>
                       /\ SendAccepted(ShortText)']_vars

\* a request has failed and the input box of the session is free again
C20_Witness ==
    /\ lastOp.op = "ReplyArrives" /\ ~lastOp.flag
    /\ Last(messages).text = ConnectionFailedText
    /\ isLoggedIn /\ activeMode # Null
    /\ ~isLoading /\ inflight = << >>
\* content is one well-formed JSON document, white space aside
IsDocument(content) ==
    LET inked == SelectSeq(content, LAMBDA x : x # Blank)
    IN Len(inked) = 1 /\ inked[1] \in DocTokens

\* the values of the document that content is
DocumentOf(content) == DocValue(SelectSeq(content, LAMBDA x : x # Blank)[1])

\* the reply has its only two fences at i and j, the first tagged json
OnlyBlock(text, i, j) ==
    /\ i + 1 < j
    /\ text[i] = Fence /\ text[i + 1] = JsonTag /\ text[j] = Fence
    /\ \A k \in 1..Len(text) : text[k] = Fence => k \in {i, j}

\* C21 as claimed: for a reply whose only fenced block is tagged json and
\* holds a well-formed JSON document, whatever its value, cleanText is the
\* reply without the block, trimmed, and machinery and schedule are the
\* values the document has under those keys.
C21_ExtractOneBlock ==
    extraction.done =>
        \A i, j \in 1..Len(extraction.text) :
            (/\ OnlyBlock(extraction.text, i, j)
             /\ IsDocument(SubSeq(extraction.text, i + 2, j - 1)))
            => /\ extraction.cleanText
                    = Trim(SubSeq(extraction.text, 1, i - 1)
                           \o SubSeq(extraction.text, j + 1, Len(extraction.text)))
               /\ extraction.machinery
                    = DocumentOf(SubSeq(extraction.text, i + 2, j - 1)).machinery
               /\ extraction.schedule
                    = DocumentOf(SubSeq(extraction.text, i + 2, j - 1)).schedule

\* the first block tagged json of the reply opens at i and closes at j
FirstBlock(text, i, j) ==
    /\ i + 1 < j
    /\ text[i] = Fence /\ text[i + 1] = JsonTag /\ text[j] = Fence
    /\ \A k \in (i + 2)..(j - 1) : text[k] # Fence
    /\ \A k \in 1..(i - 1) :
          ~(/\ text[k] = Fence /\ text[k + 1] = JsonTag
            /\ \E m \in (k + 2)..Len(text) : text[m] = Fence)

\* C22: when the content of the first block tagged json is not a JSON
\* document, cleanText is the reply as it was and machinery and schedule
\* are absent, whatever follows the block.
C22_BadBlockUntouched ==
    extraction.done =>
        \A i, j \in 1..Len(extraction.text) :
            (/\ FirstBlock(extraction.text, i, j)
             /\ ~IsDocument(SubSeq(extraction.text, i + 2, j - 1)))
            => /\ extraction.cleanText = extraction.text
               /\ extraction.machinery = Undefined
               /\ extraction.schedule = Undefined

\* a reply with a malformed block followed by a well-formed one went
\* through the extractor
C22_Witness ==
    /\ extraction.done
    /\ extraction.text = <<Fence, JsonTag, BadDoc, Fence,
                            Fence, JsonTag, "{m:obj}", Fence>>
    /\ extraction.cleanText = extraction.text
\* a row the parser can use: an object with a reading, a text line whose
\* vibration field, the only field or the second, is a number
UsableItem(item) ==
    item.kind = "object"
        /\ (item.vibration # Missing \/ item.value # Missing \/ item.v # Missing)
UsableLine(line) ==
    \/ Len(line) = 1 /\ line[1] = "1"
    \/ Len(line) >= 2 /\ line[2] = "1"

\* C23 as claimed: a JSON file whose root is an array with a usable
\* element, and a text file with a usable line, are parsed with success
\* whatever their other rows are, one point per array element on the JSON
\* path.
C23_MalformedRowTolerated ==
    sensorFile.done =>
        /\ (/\ sensorFile.ext = "json" /\ sensorFile.root = "array"
            /\ \E i \in 1..Len(sensorFile.items) : UsableItem(sensorFile.items[i]))
            => (sensorFile.ok /\ Len(sensorFile.points) = Len(sensorFile.items))
        /\ (/\ sensorFile.ext = "csv"
            /\ \E i \in 1..Len(sensorFile.lines) : UsableLine(sensorFile.lines[i]))
            => sensorFile.ok

\* the first of the values that is there, else the default
FirstPresent(values, default) ==
    IF \E k \in 1..Len(values) : values[k] # Missing
    THEN values[CHOOSE k \in 1..Len(values) :
                    values[k] # Missing /\ \A m \in 1..(k - 1) : values[m] = Missing]
    ELSE default

\* C24 as claimed: on the JSON path the vibration of each point is the
\* value of the first key its element has among vibration, value, v, and 0
\* when it has none; its temperature is that of temperature, else of temp,
\* and 60 when it has neither; a value of 0 that is there is kept.
C24_FirstPresentKey ==
    (sensorFile.done /\ sensorFile.ok /\ sensorFile.ext = "json") =>
        \A i \in 1..Len(sensorFile.items) :
            /\ sensorFile.points[i].vibration
                 = FirstPresent(<<sensorFile.items[i].vibration,
                                  sensorFile.items[i].value,
                                  sensorFile.items[i].v>>, 0)
            /\ sensorFile.points[i].temperature
                 = FirstPresent(<<sensorFile.items[i].temperature,
                                  sensorFile.items[i].temp>>, 60)
IsPrefix(a, b) == Len(a) <= Len(b) /\ SubSeq(b, 1, Len(a)) = a

\* every session of list a that is still in list b, by its id, has in b a
\* transcript that starts with the one it has in a (lists in which an id
\* occurs twice, and sessions created at the present clock value, whose id
\* a session created in this step can take, are left aside)
Grows(a, b) ==
    (UniqueIds(a) /\ UniqueIds(b)) =>
        \A i \in 1..Len(a), j \in 1..Len(b) :
            (a[i].id = b[j].id /\ a[i].id < now)
                => IsPrefix(a[i].messages, b[j].messages)

\* C25 as claimed: in every step, the transcript of every session that
\* stays in a stored list, or in the in-memory list of the logged-in user,
\* only gets longer: what it was is a prefix of what it is.
C25_AppendOnly ==
    [][/\ \A k \in StorageKeys : Grows(storage[k].value, storage'[k].value)
       /\ (isLoggedIn /\ isLoggedIn') => Grows(sessions, sessions')]_vars
\* no continuation of handleSend and no upload timer is outstanding
Quiet == inflight = << >> /\ pendingUpload = << >>

\* C26 as claimed: when a session is active and nothing is outstanding, the
\* displayed transcript is the transcript that the session with the current
\* id has in the session list.
C26_DisplayedIsStored ==
    (isLoggedIn /\ currentSessionId # NoSession /\ Quiet) =>
        HasSession(sessions, currentSessionId, messages)
\* a confirmed deletion was the last operation, and it left its id neither
\* in the session list nor in any storage entry
JustDeleted(id) ==
    /\ lastOp.op = "handleDeleteSession" /\ lastOp.done /\ lastOp.id = id
    /\ id \notin Ids(sessions)
    /\ \A k \in StorageKeys : id \notin Ids(storage[k].value)

\* C27 as claimed: a session id that a completed deletion removed is not
\* brought back by the next step, in the session list or in storage; ids
\* are clock values, so an id below the clock is not one a new session gets.
C27_DeletedStaysDeleted ==
    [][\A id \in 1..MaxClock :
          (JustDeleted(id) /\ id < now) =>
              /\ id \notin Ids(sessions')
              /\ \A k \in StorageKeys : id \notin Ids(storage'[k].value)]_vars
\* the storage keys of the logged-in user: the one loadHistory reads and the
\* one saveHistoryToStorage writes
OwnKeys == {username, Trim(username)}

\* id is the id of a session of another user: it is stored under another
\* user's key, and is neither in the list shown, nor stored under the
\* logged-in user's keys, nor an id a session created now would get
Foreign(id) ==
    /\ id \notin Ids(sessions)
    /\ \A k \in OwnKeys : id \notin Ids(storage[k].value)
    /\ \E k \in StorageKeys \ OwnKeys : id \in Ids(storage[k].value)
    /\ id < now

\* C28 as claimed: while a user stays logged in, no step brings a session of
\* another user into the list shown or into the entries under the user's keys.
C28_PerUserIsolation ==
    [][(isLoggedIn /\ isLoggedIn' /\ username' = username) =>
          \A id \in 1..MaxClock :
              Foreign(id) =>
                  /\ id \notin Ids(sessions')
                  /\ \A k \in OwnKeys : id \notin Ids(storage'[k].value)]_vars
\* msgs begins with the welcome message handleModeSelect writes for mode
BeginsWithWelcome(msgs, mode) ==
    /\ msgs # << >>
    /\ msgs[1].role = MODEL
    /\ msgs[1].text = WelcomeText(mode)

\* C29 as claimed: when a session is active and nothing is outstanding, the
\* session with the current id, the only one with that id, has the active
\* mode as its mode and a transcript that begins with the welcome message of
\* that mode.
C29_ModeMatchesSession ==
    (isLoggedIn /\ currentSessionId # NoSession /\ Quiet /\ UniqueIds(sessions)) =>
        \A i \in 1..Len(sessions) :
            sessions[i].id = currentSessionId =>
                /\ sessions[i].mode = activeMode
                /\ BeginsWithWelcome(sessions[i].messages, sessions[i].mode)
\* the reply to a call arrives while a session other than the one the call
\* was sent from is active
LateReplyStep ==
    /\ lastOp'.op = "ReplyArrives" /\ inflight' # inflight
    /\ isLoggedIn
    /\ currentSessionId # NoSession
    /\ lastOp'.id # currentSessionId

\* C30 as claimed: a reply that arrives after a switch to another session
\* adds nothing to the collaborator memory, which serves the session now
\* active, so the memory keeps corresponding to the active transcript.
C30_LateReplyKeptOut ==
    [][LateReplyStep => messageHistory' = messageHistory]_vars

====
